---------------------------- MODULE Spec2Model ----------------------------
(***************************************************************************)
(* Model of the relocation linker of lib/compiler/src/engine/link.rs:      *)
(* apply_relocation (the per-record encoder) and link_module (the driver). *)
(*                                                                         *)
(* Machine words are 64-bit little-endian bit vectors, functions from      *)
(* 0..63 to {0,1} (bit 0 the least significant): every u64/u32/isize       *)
(* operation of the source is done on the bits, with the source's width.   *)
(* Memory is a byte map; addresses of the modelled memory are small        *)
(* naturals.                                                               *)
(***************************************************************************)
EXTENDS Integers, Sequences, FiniteSets, TLC

(***************************************************************************)
(* 64-bit words                                                            *)
(***************************************************************************)
Bits == 0..63

\* The u64 of a natural number below 2^31.
U64(n) == [i \in Bits |-> IF i < 31 THEN (n \div (2^i)) % 2 ELSE 0]

\* The u64 written as hexadecimal digits, most significant first:
\* Hex(<<8,0,0>>) is 0x800.
Hex(digits) ==
    [i \in Bits |->
        IF (i \div 4) < Len(digits)
        THEN (digits[Len(digits) - (i \div 4)] \div (2^(i % 4))) % 2
        ELSE 0]

Zero64 == [i \in Bits |-> 0]

\* The 16 hexadecimal digits of a word, most significant first.  Words are
\* kept in this form in the state (records, pairing table, history).
ToHex(x) ==
    [j \in 1..16 |->
        LET n == 4 * (16 - j)
        IN  x[n] + 2 * x[n + 1] + 4 * x[n + 2] + 8 * x[n + 3]]

\* x & y, x | y, !x
And64(x, y) == [i \in Bits |-> x[i] * y[i]]
Or64(x, y) == [i \in Bits |-> IF x[i] + y[i] > 0 THEN 1 ELSE 0]
Not64(x) == [i \in Bits |-> 1 - x[i]]

\* x << k and x >> k on u64 (logical), x >> k on isize (arithmetic)
Shl64(x, k) == [i \in Bits |-> IF i >= k THEN x[i - k] ELSE 0]
Shr64(x, k) == [i \in Bits |-> IF i + k <= 63 THEN x[i + k] ELSE 0]
Sar64(x, k) == [i \in Bits |-> IF i + k <= 63 THEN x[i + k] ELSE x[63]]

\* `as u32`: the low 32 bits.  A u32 is kept as a word whose high half is 0.
AsU32(x) == [i \in Bits |-> IF i < 32 THEN x[i] ELSE 0]
\* x << k on u32
Shl32(x, k) == AsU32(Shl64(AsU32(x), k))

\* all carries of x + y + c0, computed in one pass
Carries(x, y, c0) ==
    LET RECURSIVE Go(_, _, _)
        Go(i, c, acc) ==
            IF i > 63 THEN acc
            ELSE Go(i + 1,
                    IF x[i] + y[i] + c >= 2 THEN 1 ELSE 0,
                    Append(acc, c))
    IN  Go(0, c0, <<>>)

\* wrapping_add, wrapping_sub, wrapping_neg on u64
AddC(x, y, c0) ==
    LET cs == Carries(x, y, c0)
    IN  [i \in Bits |-> (x[i] + y[i] + cs[i + 1]) % 2]
Add64(x, y) == AddC(x, y, 0)
Sub64(x, y) == AddC(x, Not64(y), 1)
Neg64(x) == Sub64(Zero64, x)

\* unsigned and signed (two's complement) comparison
ULt(x, y) == \E i \in Bits : x[i] < y[i] /\ \A j \in (i + 1)..63 : x[j] = y[j]
SLt(x, y) ==
    IF x[63] # y[63] THEN x[63] = 1 ELSE ULt(x, y)
SLe(x, y) == x = y \/ SLt(x, y)

\* sign_extend(x, n): the low n bits of x read as a signed number
SignExtend(x, n) == [i \in Bits |-> IF i < n THEN x[i] ELSE x[n - 1]]

(***************************************************************************)
(* Memory: read_unaligned / write_unaligned of u32 and u64, little-endian  *)
(***************************************************************************)
ByteOf(x, k) ==
    LET RECURSIVE Sum(_)
        Sum(i) == IF i > 7 THEN 0 ELSE x[8 * k + i] * (2^i) + Sum(i + 1)
    IN  Sum(0)

read_unaligned(m, a, n) ==
    [i \in Bits |-> IF i < 8 * n THEN (m[a + (i \div 8)] \div (2^(i % 8))) % 2 ELSE 0]

write_unaligned(m, a, n, x) ==
    [b \in DOMAIN m |-> IF b >= a /\ b < a + n THEN ByteOf(x, b - a) ELSE m[b]]

Read32(m, a) == read_unaligned(m, a, 4)
Read64(m, a) == read_unaligned(m, a, 8)
Write32(m, a, x) == write_unaligned(m, a, 4, x)
Write64(m, a, x) == write_unaligned(m, a, 8, x)

(***************************************************************************)
(* Relocation records and the allocation map (the inputs of link_module)   *)
(***************************************************************************)
\* RelocationKind: the kinds apply_relocation encodes, and one it does not.
SupportedKinds ==
    {"Abs8", "X86PCRel4", "X86PCRel8", "X86CallPCRel4", "Arm64Call",
     "Arm64Movw0", "Arm64Movw1", "Arm64Movw2", "Arm64Movw3",
     "RiscvPCRelHi20", "RiscvPCRelLo12I", "RiscvCall",
     "LArchAbsHi20", "LArchPCAlaHi20", "LArchAbsLo12", "LArchPCAlaLo12",
     "LArchAbs64Hi12", "LArchPCAla64Hi12", "LArchAbs64Lo20", "LArchPCAla64Lo20",
     "LArchCall36", "Aarch64AdrPrelPgHi21", "Aarch64AdrPrelLo21",
     "Aarch64AddAbsLo12Nc", "Aarch64Ldst128AbsLo12Nc", "Aarch64Ldst64AbsLo12Nc"}
RelocationKind == SupportedKinds \cup {"X86GOTPCRel4"}

\* RelocationTarget
LocalFunc(i) == [tag |-> "LocalFunc", index |-> i]
LibCall(l) == [tag |-> "LibCall", index |-> l]
CustomSection(s) == [tag |-> "CustomSection", index |-> s]

\* allocated_functions: LocalFunctionIndex -> FunctionExtent (ptr, length).
\* Functions 1 and 2 are adjacent in memory; function 3 is a callee elsewhere.
allocated_functions ==
    <<[ptr |-> 4096, length |-> 8],     \* 0x1000
      [ptr |-> 4104, length |-> 8],     \* 0x1008
      [ptr |-> 8192, length |-> 8]>>    \* 0x2000

\* allocated_sections: SectionIndex -> SectionBodyPtr.  Sections 1 and 2 hold
\* data, section 3 the libcall trampolines.
allocated_sections == <<16384, 16392, 49152>>   \* 0x4000, 0x4008, 0xC000

\* libcall_trampolines and trampoline_len, as passed to link_module
libcall_trampolines == 3
trampoline_len == 16

\* The bytes of the modelled memory: functions 1 and 2 and sections 1 and 2,
\* each pair followed by 8 bytes that belong to no extent.
Addr == (4096..4119) \cup (16384..16407)

\* wasmer_vm::libcalls::function_pointer: the address of a libcall's
\* implementation, a full 64-bit address (0x00007F00_0000_0l00).
function_pointer(libcall) ==
    Add64(Hex(<<7,15,0,0,0,0,0,0,0,0,0,0>>), U64(256 * libcall))

\* get_libcall_trampoline: the address of the libcall's trampoline entry
get_libcall_trampoline(libcall, base, len) == base + libcall * len

\* The kinds whose for_address value is a PC-relative delta to the write
\* site; the value of the others is the absolute target plus addend.
PCRelativeKinds ==
    {"X86PCRel4", "X86PCRel8", "X86CallPCRel4", "Arm64Call", "RiscvPCRelHi20",
     "RiscvCall", "LArchCall36", "Aarch64AdrPrelPgHi21", "Aarch64AdrPrelLo21"}

\* RelocationLike::for_address(body, target): (write address, value)
for_address(r, body, target) ==
    LET reloc_address == body + r.offset
    IN  [address |-> reloc_address,
         value |-> IF r.kind \in PCRelativeKinds
                   THEN Add64(Sub64(target, U64(reloc_address)), Hex(r.addend))
                   ELSE Add64(target, Hex(r.addend))]

(***************************************************************************)
(* apply_relocation                                                        *)
(***************************************************************************)
\* mutant: only Abs8 takes the libcall's direct address
TargetFuncAddressAbs8Only(r) ==
    CASE r.target.tag = "LocalFunc" ->
            U64(allocated_functions[r.target.index].ptr)
      [] r.target.tag = "LibCall" ->
            IF r.kind = "Abs8"
            THEN function_pointer(r.target.index)
            ELSE U64(get_libcall_trampoline(r.target.index,
                        allocated_sections[libcall_trampolines], trampoline_len))
      [] r.target.tag = "CustomSection" ->
            U64(allocated_sections[r.target.index])

\* lines 28-46: the absolute address of the relocation's target
TargetFuncAddress(r) ==
    CASE r.target.tag = "LocalFunc" ->
            U64(allocated_functions[r.target.index].ptr)
      [] r.target.tag = "LibCall" ->
            IF r.kind = "Abs8" \/ r.kind = "X86PCRel8"
            THEN function_pointer(r.target.index)
            ELSE U64(get_libcall_trampoline(r.target.index,
                        allocated_sections[libcall_trampolines], trampoline_len))
      [] r.target.tag = "CustomSection" ->
            U64(allocated_sections[r.target.index])

\* lines 49-64: the plain stores
Abs8Store(m, reloc_address, reloc_delta) ==
    Write64(m, reloc_address, reloc_delta)
\* mutant: the 32-bit field is stored through a u64 pointer
X86PCRel4StoreWide(m, reloc_address, reloc_delta) ==
    Write64(m, reloc_address, AsU32(reloc_delta))

X86PCRel4Store(m, reloc_address, reloc_delta) ==
    Write32(m, reloc_address, AsU32(reloc_delta))
X86PCRel8Store(m, reloc_address, reloc_delta) ==
    Write64(m, reloc_address, reloc_delta)
\* mutant: the 32-bit call field is stored one byte on
X86CallPCRel4StoreShifted(m, reloc_address, reloc_delta) ==
    Write32(m, reloc_address + 1, AsU32(reloc_delta))

X86CallPCRel4Store(m, reloc_address, reloc_delta) ==
    Write32(m, reloc_address, AsU32(reloc_delta))

\* line 67: (reloc_delta as i64).abs().  i64::MIN has no absolute value: a
\* build with overflow checks panics there, a build without them returns
\* i64::MIN.
I64Min == Shl64(U64(1), 63)
AbsOverflows(x) == x = I64Min
AbsI64(x) == IF x[63] = 1 THEN Neg64(x) ELSE x

\* lines 67-75: whether the Arm64Call range check panics
Arm64CallPanics(reloc_delta, overflow_checks) ==
    \/ overflow_checks /\ AbsOverflows(reloc_delta)
    \/ SLe(Hex(<<1,0,0,0,0,0,0,0>>), AbsI64(reloc_delta))

\* lines 76-78
Arm64CallEncode(m, reloc_address, reloc_delta) ==
    Write32(m, reloc_address,
        Or64(And64(AsU32(Shr64(reloc_delta, 2)), Hex(<<3,15,15,15,15,15,15>>)),
             And64(Read32(m, reloc_address), Hex(<<15,12,0,0,0,0,0,0>>))))

\* lines 80-103: Arm64Movw0..3, the 16-bit slice k of the value
Arm64MovwEncode(m, reloc_address, reloc_delta, k) ==
    Write32(m, reloc_address,
        Or64(Shl32(AsU32(And64(Shr64(reloc_delta, 16 * k), Hex(<<15,15,15,15>>))), 5),
             Read32(m, reloc_address)))

\* line 108: riscv_pcrel_hi20s.insert(reloc_address, reloc_delta as u32)
Hi20Insert(table, reloc_address, reloc_delta) ==
    [k \in DOMAIN table \cup {reloc_address} |->
        IF k = reloc_address THEN ToHex(AsU32(reloc_delta)) ELSE table[k]]

\* mutant: the HI20 field is truncated, not rounded (no + 0x800)
RiscvPCRelHi20EncodeTruncating(m, reloc_address, reloc_delta) ==
    Write32(m, reloc_address,
        Or64(AsU32(And64(reloc_delta, Hex(<<15,15,15,15,15,0,0,0>>))),
             Read32(m, reloc_address)))

\* lines 110-112
RiscvPCRelHi20Encode(m, reloc_address, reloc_delta) ==
    Write32(m, reloc_address,
        Or64(AsU32(And64(Add64(reloc_delta, Hex(<<8,0,0>>)),
                         Hex(<<15,15,15,15,15,0,0,0>>))),
             Read32(m, reloc_address)))

\* mutant: a missing entry reads as zero (unwrap_or_default instead of expect)
Hi20GetOrZero(table, reloc_abs) ==
    LET hit == {k \in DOMAIN table : U64(k) = reloc_abs}
    IN  IF hit = {} THEN [found |-> TRUE, value |-> Zero64]
        ELSE [found |-> TRUE, value |-> Hex(table[CHOOSE k \in hit : TRUE])]
\* lines 116-118: riscv_pcrel_hi20s.get(&(reloc_abs as usize)).expect(..)
Hi20Get(table, reloc_abs) ==
    LET hit == {k \in DOMAIN table : U64(k) = reloc_abs}
    IN  IF hit = {} THEN [found |-> FALSE, value |-> Zero64]
        ELSE [found |-> TRUE, value |-> Hex(table[CHOOSE k \in hit : TRUE])]

\* lines 116-121, given the looked-up value
RiscvPCRelLo12IEncode(m, reloc_address, hi20) ==
    Write32(m, reloc_address,
        Or64(Shl32(And64(hi20, Hex(<<15,15,15>>)), 20),
             Read32(m, reloc_address)))

\* lines 123-129
RiscvCallEncode(m, reloc_address, reloc_delta) ==
    Write64(m, reloc_address,
        Or64(Or64(Shl64(And64(reloc_delta, Hex(<<15,15,15>>)), 52),
                  And64(Add64(reloc_delta, Hex(<<8,0,0>>)),
                        Hex(<<15,15,15,15,15,0,0,0>>))),
             Read64(m, reloc_address)))

\* lines 130-153: the LoongArch one-word kinds: the field
\* (reloc_abs >> shift) & mask, placed at bit `at`
LArchFieldEncode(m, reloc_address, reloc_abs, shift, mask, at) ==
    Write32(m, reloc_address,
        Or64(Shl32(AsU32(And64(Shr64(reloc_abs, shift), mask)), at),
             Read32(m, reloc_address)))

\* mutant: the second word is taken 8 bytes on, not 4
LArchCall36EncodeWordApart(m, reloc_address, reloc_delta) ==
    LET reloc_delta1 ==
            Or64(Shl32(AsU32(And64(Shr64(reloc_delta, 18), Hex(<<15,15,15,15,15>>))), 5),
                 Read32(m, reloc_address))
        m1 == Write32(m, reloc_address, reloc_delta1)
        reloc_delta2 ==
            Or64(Shl32(AsU32(And64(Shr64(reloc_delta, 2), Hex(<<15,15,15,15>>))), 10),
                 Read32(m1, reloc_address + 8))
    IN  Write32(m1, reloc_address + 8, reloc_delta2)

\* lines 154-162
LArchCall36Encode(m, reloc_address, reloc_delta) ==
    LET reloc_delta1 ==
            Or64(Shl32(AsU32(And64(Shr64(reloc_delta, 18), Hex(<<15,15,15,15,15>>))), 5),
                 Read32(m, reloc_address))
        m1 == Write32(m, reloc_address, reloc_delta1)
        reloc_delta2 ==
            Or64(Shl32(AsU32(And64(Shr64(reloc_delta, 2), Hex(<<15,15,15,15>>))), 10),
                 Read32(m1, reloc_address + 4))
    IN  Write32(m1, reloc_address + 4, reloc_delta2)

\* lines 167-170 and 185-188: (-1 << n)..(1 << n) contains delta, as isize
InSignedRange(delta, n) ==
    /\ SLe(Shl64(Not64(Zero64), n), delta)
    /\ SLt(delta, Shl64(U64(1), n))

\* lines 172-179 and 190-196: the adr/adrp immediate, immlo at 30:29 and
\* immhi at 23:5
AdrImmEncode(m, reloc_address, delta) ==
    LET op == Read32(m, reloc_address)
        immlo == Shl32(And64(AsU32(delta), U64(3)), 29)
        immhi == Shl32(And64(Shr64(AsU32(delta), 2), Hex(<<7,15,15,15,15>>)), 5)
        mask == AsU32(Not64(Or64(Shl64(Hex(<<7,15,15,15,15>>), 5), Shl64(U64(3), 29))))
    IN  Write32(m, reloc_address, Or64(Or64(And64(op, mask), immlo), immhi))
Aarch64AdrPrelPgHi21Encode(m, reloc_address, delta) ==
    AdrImmEncode(m, reloc_address, Sar64(delta, 12))
Aarch64AdrPrelLo21Encode(m, reloc_address, delta) ==
    AdrImmEncode(m, reloc_address, delta)

\* lines 198-208
Aarch64AddAbsLo12NcEncode(m, reloc_address, delta) ==
    LET op == Read32(m, reloc_address)
        imm == Shl32(And64(AsU32(delta), Hex(<<15,15,15>>)), 10)
        mask == AsU32(Not64(Shl64(Hex(<<15,15,15>>), 10)))
    IN  Write32(m, reloc_address, Or64(And64(op, mask), imm))

\* lines 209-220: Aarch64Ldst128AbsLo12Nc (scale 4), Aarch64Ldst64AbsLo12Nc (3)
Aarch64LdstEncode(m, reloc_address, reloc_delta, scale) ==
    Write32(m, reloc_address,
        Or64(Shl32(Shr64(And64(AsU32(reloc_delta), Hex(<<15,15,15>>)), scale), 10),
             And64(Read32(m, reloc_address), Hex(<<15,15,12,0,0,3,15,15>>))))

\* The outcome of one apply_relocation call
Patched(m, table) == [mem |-> m, table |-> table, panicked |-> FALSE]
Panic(m, table) == [mem |-> m, table |-> table, panicked |-> TRUE]

\* lines 19-223
apply_relocation(body, r, m, table, overflow_checks) ==
    LET target_func_address == TargetFuncAddress(r)
        fa == for_address(r, body, target_func_address)
        a == fa.address
        v == fa.value
        k == r.kind
    IN  CASE k = "Abs8" -> Patched(Abs8Store(m, a, v), table)
          [] k = "X86PCRel4" -> Patched(X86PCRel4Store(m, a, v), table)
          [] k = "X86PCRel8" -> Patched(X86PCRel8Store(m, a, v), table)
          [] k = "X86CallPCRel4" -> Patched(X86CallPCRel4Store(m, a, v), table)
          [] k = "Arm64Call" ->
                IF Arm64CallPanics(v, overflow_checks) THEN Panic(m, table)
                ELSE Patched(Arm64CallEncode(m, a, v), table)
          [] k = "Arm64Movw0" -> Patched(Arm64MovwEncode(m, a, v, 0), table)
          [] k = "Arm64Movw1" -> Patched(Arm64MovwEncode(m, a, v, 1), table)
          [] k = "Arm64Movw2" -> Patched(Arm64MovwEncode(m, a, v, 2), table)
          [] k = "Arm64Movw3" -> Patched(Arm64MovwEncode(m, a, v, 3), table)
          [] k = "RiscvPCRelHi20" ->
                Patched(RiscvPCRelHi20Encode(m, a, v), Hi20Insert(table, a, v))
          [] k = "RiscvPCRelLo12I" ->
                LET got == Hi20Get(table, v)
                IN  IF ~got.found THEN Panic(m, table)
                    ELSE Patched(RiscvPCRelLo12IEncode(m, a, got.value), table)
          [] k = "RiscvCall" -> Patched(RiscvCallEncode(m, a, v), table)
          [] k \in {"LArchAbsHi20", "LArchPCAlaHi20"} ->
                Patched(LArchFieldEncode(m, a, v, 12, Hex(<<15,15,15,15,15>>), 5), table)
          [] k \in {"LArchAbsLo12", "LArchPCAlaLo12"} ->
                Patched(LArchFieldEncode(m, a, v, 0, Hex(<<15,15,15>>), 10), table)
          [] k \in {"LArchAbs64Hi12", "LArchPCAla64Hi12"} ->
                Patched(LArchFieldEncode(m, a, v, 52, Hex(<<15,15,15>>), 10), table)
          [] k \in {"LArchAbs64Lo20", "LArchPCAla64Lo20"} ->
                Patched(LArchFieldEncode(m, a, v, 32, Hex(<<15,15,15,15,15>>), 5), table)
          [] k = "LArchCall36" -> Patched(LArchCall36Encode(m, a, v), table)
          [] k = "Aarch64AdrPrelPgHi21" ->
                IF ~InSignedRange(v, 32) THEN Panic(m, table)
                ELSE Patched(Aarch64AdrPrelPgHi21Encode(m, a, v), table)
          [] k = "Aarch64AdrPrelLo21" ->
                IF ~InSignedRange(v, 20) THEN Panic(m, table)
                ELSE Patched(Aarch64AdrPrelLo21Encode(m, a, v), table)
          [] k = "Aarch64AddAbsLo12Nc" ->
                Patched(Aarch64AddAbsLo12NcEncode(m, a, v), table)
          [] k = "Aarch64Ldst128AbsLo12Nc" ->
                Patched(Aarch64LdstEncode(m, a, v, 4), table)
          [] k = "Aarch64Ldst64AbsLo12Nc" ->
                Patched(Aarch64LdstEncode(m, a, v, 3), table)
          [] OTHER -> Panic(m, table)

\* The number of bytes the kind's store(s) cover, from the write address:
\* the u64 stores and the two u32 stores of LArchCall36 cover 8, the u32
\* stores 4.
WriteWidth(kind) ==
    IF kind \in {"Abs8", "X86PCRel8", "RiscvCall", "LArchCall36"} THEN 8 ELSE 4

(***************************************************************************)
(* The inputs the model is run on                                          *)
(***************************************************************************)
\* The longest record list of one body in the record-list family below.
MaxRecs == 2

Reloc(kind, offset, target, addend) ==
    [kind |-> kind, offset |-> offset, target |-> target, addend |-> ToHex(addend)]

\* The record of the given kind, offset and target in the body at `body`
\* whose for_address value is v (the addend is chosen to make it so).
WithValue(kind, offset, target, body, v) ==
    LET r0 == Reloc(kind, offset, target, Zero64)
    IN  Reloc(kind, offset, target,
              Sub64(v, for_address(r0, body, TargetFuncAddress(r0)).value))

Func1 == allocated_functions[1].ptr
\* 0x100, 2, -8, 0x87654321, 0xFEDCBA9876543210
CommonValues ==
    {Hex(<<1,0,0>>), U64(2), Neg64(U64(8)), Hex(<<8,7,6,5,4,3,2,1>>),
     Hex(<<15,14,13,12,11,10,9,8,7,6,5,4,3,2,1,0>>)}

\* The values around the range limits 2^28, 2^32 and 2^20 and around the
\* reach 2^27 of a 26-bit branch field, and i64::MIN
RangeKinds == {"Arm64Call", "Aarch64AdrPrelPgHi21", "Aarch64AdrPrelLo21"}
RangeLimits ==
    {Shl64(U64(1), 27), Shl64(U64(1), 28), Shl64(U64(1), 32), Shl64(U64(1), 20)}
RangeValues ==
    UNION {{l, Sub64(l, U64(1)), Sub64(l, U64(4)), Neg64(l),
            Sub64(Neg64(l), U64(1)), Add64(Neg64(l), U64(1)),
            Add64(Neg64(l), U64(4))} : l \in RangeLimits}
    \cup {I64Min, Neg64(U64(6))}

\* Addresses representable in 32 bits, around the 0x800 rounding of HI20
Hi20Values ==
    {Zero64, Hex(<<7,15,15>>), Hex(<<8,0,0>>), Hex(<<15,15,15>>), Hex(<<1,0,0,0>>),
     Hex(<<8,7,6,5,4,3,2,1>>), Hex(<<7,15,15,15,15,8,0,0>>),
     Hex(<<15,15,15,15,15,7,15,15>>), Hex(<<15,15,15,15,15,8,0,0>>),
     Hex(<<15,15,15,15,15,15,15,15>>)}

\* A64 instructions are 4 bytes long and 4-byte aligned: the write site of a
\* branch and the distance to its target are multiples of 4.
BranchAligned(r, body) ==
    r.kind = "Arm64Call" =>
        LET fa == for_address(r, body, TargetFuncAddress(r))
        IN  fa.address % 4 = 0 /\ fa.value[0] = 0 /\ fa.value[1] = 0

\* One record in function 1: every kind at several offsets and values, every
\* kind against a libcall and a section, and the range-checked kinds at
\* their limits.
SingleRecords ==
    {r \in
        {WithValue(k, o, LocalFunc(3), Func1, v) :
            k \in RelocationKind, o \in {0, 1, 4, 6}, v \in CommonValues}
        \cup {Reloc(k, 0, t, Zero64) :
            k \in RelocationKind, t \in {LibCall(7), LibCall(2), CustomSection(1)}}
        \cup {WithValue(k, 0, LocalFunc(3), Func1, v) : k \in RangeKinds, v \in RangeValues}
        \cup {Reloc("X86CallPCRel4", 1, LocalFunc(3), Neg64(U64(4)))} :
     BranchAligned(r, Func1)}

\* Records of function 1 that are combined into lists: the HI20/LO12_I pair
\* (the LO12_I carries the HI20's address 0x1000 as its target), plain
\* stores at disjoint and at overlapping offsets, and a call out of range.
ListRecords ==
    {WithValue("RiscvPCRelHi20", 0, LocalFunc(3), Func1, Hex(<<8,7,6,5,4,3,2,1>>)),
     Reloc("RiscvPCRelLo12I", 4, LocalFunc(1), Zero64),
     WithValue("X86PCRel4", 0, LocalFunc(3), Func1, Hex(<<1,0,0>>)),
     WithValue("X86PCRel4", 4, LocalFunc(3), Func1, Hex(<<8,7,6,5,4,3,2,1>>)),
     WithValue("Abs8", 0, LocalFunc(3), Func1, Hex(<<1,1,2,2,3,3,4,4,5,5,6,6,7,7,8,8>>)),
     WithValue("Arm64Call", 4, LocalFunc(3), Func1, Shl64(U64(1), 28))}

\* Records placed in the bodies of multi-body streams: an HI20 at offset 0,
\* and LO12_I records whose target is the start of section 1 or function 1.
StreamRecords ==
    {Reloc("RiscvPCRelHi20", 0, LocalFunc(3), Hex(<<3,2,1>>)),
     Reloc("RiscvPCRelLo12I", 4, CustomSection(1), Zero64),
     Reloc("RiscvPCRelLo12I", 4, LocalFunc(1), Zero64)}

SeqsUpTo(S, n) == UNION {[1..k -> S] : k \in 0..n}

Body(index, relocs) == [index |-> index, relocs |-> relocs]

\* The streams over bodies 1 and 2, each at most once, in either order, each
\* with at most one record
BodyStreams ==
    LET lists == {<<>>} \cup {<<r>> : r \in StreamRecords}
    IN  {<<>>}
        \cup {<<Body(i, l)>> : i \in {1, 2}, l \in lists}
        \cup {<<Body(i, l), Body(3 - i, l2)>> : i \in {1, 2}, l \in lists, l2 \in lists}

Scenario(sections, functions, fill) ==
    [sections |-> sections, functions |-> functions, prefill |-> fill]

Scenarios ==
    {Scenario(<<>>, <<Body(1, <<r>>)>>, fill) : r \in SingleRecords, fill \in {0, 165}}
    \cup {Scenario(<<>>, <<Body(1, l)>>, 0) : l \in SeqsUpTo(ListRecords, MaxRecs)}
    \cup {Scenario(<<>>, <<Body(1, <<WithValue("RiscvPCRelHi20", 0, LocalFunc(3), Func1, v),
                                     Reloc("RiscvPCRelLo12I", 4, LocalFunc(1), Zero64)>>)>>, 0) :
            v \in Hi20Values}
    \cup {Scenario(ss, fs, 0) : ss \in BodyStreams, fs \in BodyStreams}

(***************************************************************************)
(* link_module                                                             *)
(***************************************************************************)
VARIABLES
    section_relocations,   \* the section relocation stream (input)
    function_relocations,  \* the function relocation stream (input)
    prefill,               \* the byte the memory held before linking (input)
    overflow_checks,       \* whether the build checks integer overflow
    mem,                   \* the executable memory
    riscv_pcrel_hi20s,     \* the HashMap of line 246
    phase,                 \* "sections", "functions", "returned", "panicked"
    bi,                    \* position of the outer loop in its stream
    ri,                    \* position of the inner loop in the body's records
    log                    \* history: the apply_relocation calls made, in order

vars == <<section_relocations, function_relocations, prefill, overflow_checks,
          mem, riscv_pcrel_hi20s, phase, bi, ri, log>>

\* mutant: the function loop comes first
PassOrderFunctionsFirst == <<"functions", "sections">>

\* lines 248 and 262: the section loop comes first, then the function loop
PassOrder == <<"sections", "functions">>

PassAfter(p) ==
    LET i == CHOOSE j \in 1..Len(PassOrder) : PassOrder[j] = p
    IN  IF i < Len(PassOrder) THEN PassOrder[i + 1] ELSE "returned"

\* mutant: the iterator is advanced twice
NextRecordSkipping(i) == i + 2

\* the inner `for r in ..` loops: the record after the one at position i
NextRecord(i) == i + 1

Stream(p) == IF p = "sections" THEN section_relocations ELSE function_relocations

\* lines 249 and 263
BodyAddress(p, index) ==
    IF p = "sections" THEN allocated_sections[index]
    ELSE allocated_functions[index].ptr

\* What one apply_relocation call is given and computes first
Call(p, b, r) ==
    LET body == BodyAddress(p, b.index)
        target == TargetFuncAddress(r)
        fa == for_address(r, body, target)
    IN  [pass |-> p, index |-> b.index, body |-> body, r |-> r,
         target |-> ToHex(target), address |-> fa.address, value |-> ToHex(fa.value)]

InitialMemory(fill) == [a \in Addr |-> fill]

Init ==
    /\ \E sc \in Scenarios :
          /\ section_relocations = sc.sections
          /\ function_relocations = sc.functions
          /\ prefill = sc.prefill
    /\ overflow_checks \in BOOLEAN
    /\ mem = InitialMemory(prefill)
    /\ riscv_pcrel_hi20s = [k \in {} |-> Zero64]
    /\ phase = PassOrder[1]
    /\ bi = 1
    /\ ri = 1
    /\ log = <<>>

AtRecord(p) ==
    /\ phase = p
    /\ bi <= Len(Stream(p))
    /\ ri <= Len(Stream(p)[bi].relocs)

\* lines 250-260 and 264-274: one apply_relocation call of the inner loop
Apply(p) ==
    /\ AtRecord(p)
    /\ LET b == Stream(p)[bi]
           r == b.relocs[ri]
           out == apply_relocation(BodyAddress(p, b.index), r, mem,
                                   riscv_pcrel_hi20s, overflow_checks)
       IN  /\ mem' = out.mem
           /\ riscv_pcrel_hi20s' = out.table
           /\ log' = Append(log, Call(p, b, r))
           /\ phase' = IF out.panicked THEN "panicked" ELSE phase
           /\ ri' = IF out.panicked THEN ri ELSE NextRecord(ri)
    /\ UNCHANGED <<section_relocations, function_relocations, prefill,
                   overflow_checks, bi>>

\* the outer loops: the body's records are consumed, on to the next body
NextBody(p) ==
    /\ phase = p
    /\ bi <= Len(Stream(p))
    /\ ri > Len(Stream(p)[bi].relocs)
    /\ bi' = bi + 1
    /\ ri' = 1
    /\ UNCHANGED <<section_relocations, function_relocations, prefill,
                   overflow_checks, mem, riscv_pcrel_hi20s, phase, log>>

\* the stream is consumed: on to the next loop, or return
EndOfStream(p) ==
    /\ phase = p
    /\ bi > Len(Stream(p))
    /\ phase' = PassAfter(p)
    /\ bi' = 1
    /\ ri' = 1
    /\ UNCHANGED <<section_relocations, function_relocations, prefill,
                   overflow_checks, mem, riscv_pcrel_hi20s, log>>

SectionApply == phase = "sections" /\ Apply("sections")
SectionNextBody == phase = "sections" /\ NextBody("sections")
SectionsDone == phase = "sections" /\ EndOfStream("sections")
FunctionApply == phase = "functions" /\ Apply("functions")
FunctionNextBody == phase = "functions" /\ NextBody("functions")
FunctionsDone == phase = "functions" /\ EndOfStream("functions")

Next ==
    \/ SectionApply
    \/ SectionNextBody
    \/ SectionsDone
    \/ FunctionApply
    \/ FunctionNextBody
    \/ FunctionsDone

Spec == Init /\ [][Next]_vars

(***************************************************************************)
(* link_module as a function of its inputs: the same loops, run to the     *)
(* end.  Used to compare the run of one record stream with the run of      *)
(* another.                                                                *)
(***************************************************************************)
\* the inner loop over one body's records, from the state st
RECURSIVE LinkRecords(_, _, _, _, _, _)
LinkRecords(p, index, relocs, i, st, oc) ==
    IF st.panicked \/ i > Len(relocs) THEN st
    ELSE LinkRecords(p, index, relocs, NextRecord(i),
                     apply_relocation(BodyAddress(p, index), relocs[i],
                                      st.mem, st.table, oc),
                     oc)

\* the outer loop over one stream's bodies
RECURSIVE LinkBodies(_, _, _, _, _)
LinkBodies(p, stream, b, st, oc) ==
    IF st.panicked \/ b > Len(stream) THEN st
    ELSE LinkBodies(p, stream, b + 1,
                    LinkRecords(p, stream[b].index, stream[b].relocs, 1, st, oc),
                    oc)

\* lines 246-275
link_module(sections, functions, m0, oc) ==
    LET StreamOf(p) == IF p = "sections" THEN sections ELSE functions
        RECURSIVE Passes(_, _)
        Passes(k, st) ==
            IF k > Len(PassOrder) THEN st
            ELSE Passes(k + 1, LinkBodies(PassOrder[k], StreamOf(PassOrder[k]), 1, st, oc))
    IN  Passes(1, Patched(m0, [k \in {} |-> Zero64]))

Final == phase \in {"returned", "panicked"}

\* The step-by-step run ends as link_module computes it.
RunAgrees ==
    Final =>
        LET out == link_module(section_relocations, function_relocations,
                               InitialMemory(prefill), overflow_checks)
        IN  /\ out.mem = mem
            /\ out.table = riscv_pcrel_hi20s
            /\ out.panicked = (phase = "panicked")

TypeOK ==
    /\ phase \in {"sections", "functions", "returned", "panicked"}
    /\ mem \in [Addr -> 0..255]
    /\ DOMAIN riscv_pcrel_hi20s \subseteq Addr
    /\ overflow_checks \in BOOLEAN
    /\ bi \in 1..3 /\ ri \in 1..(MaxRecs + 1)

(***************************************************************************)
(* Properties                                                              *)
(***************************************************************************)
\* the apply_relocation calls a stream asks for, in the caller's order
RECURSIVE CallsOfBody(_, _, _)
CallsOfBody(p, b, i) ==
    IF i > Len(b.relocs) THEN <<>>
    ELSE <<Call(p, b, b.relocs[i])>> \o CallsOfBody(p, b, i + 1)
RECURSIVE CallsOfStream(_, _, _)
CallsOfStream(p, stream, k) ==
    IF k > Len(stream) THEN <<>>
    ELSE CallsOfBody(p, stream[k], 1) \o CallsOfStream(p, stream, k + 1)
ExpectedCalls ==
    CallsOfStream("sections", section_relocations, 1)
        \o CallsOfStream("functions", function_relocations, 1)

\* the call the loops are about to make
Applying == AtRecord("sections") \/ AtRecord("functions")
CurCall == Call(phase, Stream(phase)[bi], Stream(phase)[bi].relocs[ri])
LastCall == log[Len(log)]
\* the for_address value and the resolved target of a call, as words
Val(e) == Hex(e.value)
Tgt(e) == Hex(e.target)

\* C1: link_module hands the records to apply_relocation in one fixed order:
\* all records of the section stream, body by body and record by record as
\* the caller supplied them, then all records of the function stream in the
\* same way.  At every moment the calls made are a prefix of that order,
\* and when link_module returns they are exactly that order: every record
\* was applied once.
C1_OnePassInOrder ==
    /\ Len(log) <= Len(ExpectedCalls)
    /\ \A i \in DOMAIN log : log[i] = ExpectedCalls[i]
    /\ phase = "returned" => log = ExpectedCalls

\* C1 witness: a run over two section bodies and two function bodies, each
\* with a record, has returned.
C1_Witness ==
    /\ phase = "returned"
    /\ Len(section_relocations) = 2 /\ Len(function_relocations) = 2
    /\ Len(log) = 4
    /\ log[2].pass = "sections" /\ log[3].pass = "functions"

\* C2: for a LibCall target the address handed to for_address is the
\* libcall's own address when the kind is Abs8 or X86PCRel8, and otherwise
\* the trampoline entry: base of section libcall_trampolines plus
\* id * trampoline_len.  A lone Abs8 or X86PCRel4 record also shows it in
\* memory: the stored value is that address (plus addend, and for
\* X86PCRel4 relative to the write site).
C2_LibCallTarget ==
    \A i \in DOMAIN log :
        LET e == log[i]
            id == e.r.target.index
            tramp == U64(allocated_sections[libcall_trampolines] + id * trampoline_len)
        IN  e.r.target.tag = "LibCall" =>
              /\ Tgt(e) = IF e.r.kind \in {"Abs8", "X86PCRel8"}
                            THEN function_pointer(id) ELSE tramp
              /\ (phase = "returned" /\ Len(log) = 1 /\ e.r.kind = "Abs8") =>
                    Read64(mem, e.address) = Add64(function_pointer(id), Hex(e.r.addend))
              /\ (phase = "returned" /\ Len(log) = 1 /\ e.r.kind = "X86PCRel4") =>
                    Read32(mem, e.address) =
                        AsU32(Add64(Sub64(tramp, U64(e.address)), Hex(e.r.addend)))

\* C2 witness: an Arm64Call against LibCall(7) was applied with the
\* trampoline entry 0xC070 as its target.
C2_Witness ==
    /\ phase = "returned" /\ Len(log) = 1
    /\ log[1].r.kind = "Arm64Call" /\ log[1].r.target = LibCall(7)
    /\ Tgt(log[1]) = Hex(<<12,0,7,0>>)

\* whether an HI20 call made so far had the write address `key`
Hi20AppliedAt(key) ==
    \E i \in DOMAIN log :
        log[i].r.kind = "RiscvPCRelHi20" /\ U64(log[i].address) = key

\* C3: when the next record is a RiscvPCRelLo12I and no RiscvPCRelHi20 applied
\* earlier in this link_module call had a write address equal to the
\* LO12_I's lookup key (its for_address value), the call panics and memory
\* is left as it was.
C3_UnpairedLo12Aborts ==
    [][(Applying /\ CurCall.r.kind = "RiscvPCRelLo12I" /\ ~Hi20AppliedAt(Val(CurCall)))
          => (phase' = "panicked" /\ mem' = mem)]_vars

\* C3 witness: a LO12_I panicked although the pairing table held an entry
\* (of an HI20 at another address).
C3_Witness ==
    /\ phase = "panicked" /\ Len(log) >= 2
    /\ LastCall.r.kind = "RiscvPCRelLo12I"
    /\ DOMAIN riscv_pcrel_hi20s # {}
    /\ \A k \in DOMAIN riscv_pcrel_hi20s : U64(k) # Val(LastCall)

\* the range limits of the three range-checked kinds, read as signed numbers
OutOfRange(kind, delta) ==
    CASE kind = "Arm64Call" ->
            \* |delta| >= 2^28
            ~(SLt(Neg64(Shl64(U64(1), 28)), delta) /\ SLt(delta, Shl64(U64(1), 28)))
      [] kind = "Aarch64AdrPrelPgHi21" ->
            ~(SLe(Neg64(Shl64(U64(1), 32)), delta) /\ SLt(delta, Shl64(U64(1), 32)))
      [] kind = "Aarch64AdrPrelLo21" ->
            ~(SLe(Neg64(Shl64(U64(1), 20)), delta) /\ SLt(delta, Shl64(U64(1), 20)))

\* C4: for every delta for_address returns, a record of a range-checked kind
\* whose delta is out of the kind's range makes the linker panic, and the
\* bytes at the write site are unchanged.
C4_OutOfRangeAborts ==
    [][(Applying /\ CurCall.r.kind \in RangeKinds
                 /\ OutOfRange(CurCall.r.kind, Val(CurCall)))
          => (phase' = "panicked" /\ mem' = mem)]_vars

\* C4, in a build that checks integer overflow: there the call panics for
\* every out-of-range delta, i64::MIN included.
C4_WithOverflowChecks ==
    [][(overflow_checks /\ Applying /\ CurCall.r.kind \in RangeKinds
                 /\ OutOfRange(CurCall.r.kind, Val(CurCall)))
          => (phase' = "panicked" /\ mem' = mem)]_vars

\* C4: conversely, a delta inside the range is never refused.
C4_InRangeAccepted ==
    [][(Applying /\ CurCall.r.kind \in RangeKinds
                 /\ ~OutOfRange(CurCall.r.kind, Val(CurCall)))
          => phase' # "panicked"]_vars

\* bits hi..lo of a 32-bit word
Field(w, hi, lo) == [i \in Bits |-> IF i <= hi - lo THEN w[i + lo] ELSE 0]

IsU32(x) == \A i \in 32..63 : x[i] = 0

\* An HI20 on a zero-immediate word followed by the LO12_I keyed on the
\* HI20's write address, the two words apart, and nothing else.
IsHi20Lo12Pair ==
    /\ Len(log) = 2
    /\ prefill = 0
    /\ log[1].r.kind = "RiscvPCRelHi20" /\ IsU32(Val(log[1]))
    /\ log[2].r.kind = "RiscvPCRelLo12I" /\ Val(log[2]) = U64(log[1].address)
    /\ (log[2].address >= log[1].address + 4 \/ log[1].address >= log[2].address + 4)

\* C5: an HI20 with value A (representable in 32 bits) applied to a
\* zero-immediate word, then the LO12_I keyed on its write address applied
\* to a zero-immediate word, leave fields with
\* (HI20_field << 12) + sign_extend(LO12_field, 12) = A in 32-bit
\* arithmetic, HI20_field being bits 31:12 of the first word and LO12_field
\* bits 31:20 of the second.
C5_Hi20Lo12RoundTrip ==
    (phase = "returned" /\ IsHi20Lo12Pair) =>
        LET hi == Field(Read32(mem, log[1].address), 31, 12)
            lo == Field(Read32(mem, log[2].address), 31, 20)
        IN  AsU32(Add64(Shl64(hi, 12), SignExtend(lo, 12))) = Val(log[1])

\* C5 witness: such a pair was linked for an address whose low 12 bits are
\* 0x800 or more, so that the HI20 field is rounded up.
C5_Witness ==
    /\ phase = "returned" /\ IsHi20Lo12Pair
    /\ Val(log[1])[11] = 1 /\ Val(log[1])[31] = 1

\* FunctionExtent: the bytes [ptr, ptr + length) of a function
InExtent(a, e) == e.ptr <= a /\ a < e.ptr + e.length
Extents == {allocated_functions[i] : i \in DOMAIN allocated_functions}

\* no byte outside extent e differs between memories m1 and m2
OnlyExtentChanged(m1, m2, e) ==
    \A a \in Addr : ~InExtent(a, e) => m1[a] = m2[a]

\* C7 as claimed: a record of a supported kind whose write address lies in
\* a function extent E changes only bytes of E.
C7_WriteAddressInExtent ==
    [][(Applying /\ CurCall.r.kind \in SupportedKinds) =>
          \A e \in Extents :
              InExtent(CurCall.address, e) => OnlyExtentChanged(mem, mem', e)]_vars

\* C7 amended: a record of a supported kind whose whole written range, from
\* the write address over the width of the kind's store (8 bytes for Abs8,
\* X86PCRel8, RiscvCall and the two words of LArchCall36, 4 bytes otherwise),
\* lies in a function extent E changes only bytes of E.
C7_WrittenRangeInExtent ==
    [][(Applying /\ CurCall.r.kind \in SupportedKinds) =>
          \A e \in Extents :
              (/\ InExtent(CurCall.address, e)
               /\ InExtent(CurCall.address + WriteWidth(CurCall.r.kind) - 1, e))
                  => OnlyExtentChanged(mem, mem', e)]_vars

\* C7 witness: a LArchCall36 record that covers the whole of function 1 was
\* applied and changed memory.
C7_Witness ==
    /\ phase = "returned" /\ Len(log) = 1
    /\ log[1].r.kind = "LArchCall36"
    /\ log[1].address = allocated_functions[1].ptr
    /\ mem # InitialMemory(prefill)
    /\ Read32(mem, log[1].address + 4) # Read32(InitialMemory(prefill), log[1].address + 4)

\* The scenario of C8: the function at 0x1000, its callee at 0x2000, one
\* X86CallPCRel4 record at offset 1 with addend -4.
IsNearCallScenario ==
    /\ allocated_functions[1].ptr = 4096 /\ allocated_functions[3].ptr = 8192
    /\ section_relocations = <<>>
    /\ function_relocations =
          <<Body(1, <<Reloc("X86CallPCRel4", 1, LocalFunc(3), Neg64(U64(4)))>>)>>

\* C8 as claimed: after link_module the 32-bit field at 0x1001 is 0x00000FFC.
C8_NearCallField0FFC ==
    (IsNearCallScenario /\ phase = "returned") =>
        Read32(mem, 4097) = Hex(<<0,0,0,0,0,15,15,12>>)

\* C8 amended: after link_module the 32-bit field at 0x1001 is 0x00000FFB,
\* the delta 0x2000 - 0x1001 to the write site plus the addend -4.
C8_NearCallField0FFB ==
    (IsNearCallScenario /\ phase = "returned") =>
        Read32(mem, 4097) = Hex(<<0,0,0,0,0,15,15,11>>)

\* C8 witness: the scenario was linked.
C8_Witness == IsNearCallScenario /\ phase = "returned" /\ Len(log) = 1

\* the bytes a record of the body at `body` writes: from its write address
\* over the width of its kind's store
WrittenRange(body, r) ==
    LET a == body + r.offset IN a..(a + WriteWidth(r.kind) - 1)

\* the written ranges of the records of a list are pairwise disjoint
DisjointWrites(body, l) ==
    \A i \in DOMAIN l : \A j \in DOMAIN l :
        i < j => WrittenRange(body, l[i]) \cap WrittenRange(body, l[j]) = {}

\* the orderings of a list
Orderings(l) ==
    {[i \in DOMAIN l |-> l[f[i]]] :
        f \in {g \in [DOMAIN l -> DOMAIN l] : \A i, j \in DOMAIN l : g[i] = g[j] => i = j}}

\* the stream with the records of body k replaced by the list l
WithRecords(stream, k, l) ==
    [stream EXCEPT ![k] = Body(stream[k].index, l)]

\* link_module run on the current inputs, the records of body k of pass p
\* replaced by l
Relinked(p, k, l) ==
    link_module(IF p = "sections" THEN WithRecords(section_relocations, k, l)
                ELSE section_relocations,
                IF p = "functions" THEN WithRecords(function_relocations, k, l)
                ELSE function_relocations,
                InitialMemory(prefill), overflow_checks)

\* a list holds a LO12_I record keyed on the write address of an HI20 record
\* of the same list
HoldsHi20Lo12Pair(p, b, l) ==
    \E i \in DOMAIN l : \E j \in DOMAIN l :
        /\ l[i].kind = "RiscvPCRelHi20" /\ l[j].kind = "RiscvPCRelLo12I"
        /\ Val(Call(p, b, l[j])) = U64(Call(p, b, l[i]).address)

\* C6 as claimed: when the run has ended, then for every body whose records
\* write pairwise disjoint ranges, link_module on any reordering of that
\* body's records ends the same way (return or panic) with the same memory.
C6_AnyOrderSameResult ==
    Final =>
        \A p \in {"sections", "functions"} : \A k \in DOMAIN Stream(p) :
            LET b == Stream(p)[k] IN
            DisjointWrites(BodyAddress(p, b.index), b.relocs) =>
                \A l \in Orderings(b.relocs) :
                    LET out == Relinked(p, k, l)
                    IN  /\ out.panicked = (phase = "panicked")
                        /\ out.mem = mem

\* C6 amended: the same for every body that holds no LO12_I record keyed on
\* the write address of an HI20 record of the same body: every reordering
\* ends the same way (return or panic), and when link_module returns, with
\* the same memory.
C6_OrderIndependentWithoutPair ==
    Final =>
        \A p \in {"sections", "functions"} : \A k \in DOMAIN Stream(p) :
            LET b == Stream(p)[k] IN
            (/\ DisjointWrites(BodyAddress(p, b.index), b.relocs)
             /\ ~HoldsHi20Lo12Pair(p, b, b.relocs)) =>
                \A l \in Orderings(b.relocs) :
                    LET out == Relinked(p, k, l)
                    IN  /\ out.panicked = (phase = "panicked")
                        /\ phase = "returned" => out.mem = mem

\* C6 witness: a body of two different records at disjoint ranges, without
\* an HI20/LO12_I pair, was linked and both records changed memory.
C6_Witness ==
    /\ phase = "returned" /\ Len(function_relocations) = 1
    /\ LET b == function_relocations[1] IN
          /\ Len(b.relocs) = 2 /\ b.relocs[1] # b.relocs[2]
          /\ DisjointWrites(BodyAddress("functions", b.index), b.relocs)
          /\ ~HoldsHi20Lo12Pair("functions", b, b.relocs)
          /\ Read32(mem, log[1].address) # Zero64
          /\ Read32(mem, log[2].address) # Zero64

\* a LO12_I call whose key is the write address of an HI20 record of the
\* stream of pass p
PairedWithHi20In(p, e) ==
    \E k \in DOMAIN Stream(p) : \E i \in DOMAIN Stream(p)[k].relocs :
        LET h == Call(p, Stream(p)[k], Stream(p)[k].relocs[i])
        IN  h.r.kind = "RiscvPCRelHi20" /\ U64(h.address) = Val(e)

\* call j of the history found its HI20 entry: an HI20 with that write
\* address was applied before it and the call did not panic
Lo12Succeeded(j) ==
    /\ \E i \in 1..(j - 1) :
          log[i].r.kind = "RiscvPCRelHi20" /\ U64(log[i].address) = Val(log[j])
    /\ ~(j = Len(log) /\ phase = "panicked")

\* C9 as claimed: whenever a LO12_I is applied whose HI20 is in the other
\* stream (HI20 in a section and LO12_I in a function, or LO12_I in a section
\* and HI20 in a function), the HI20 was applied before and the lookup
\* succeeds.
C9_SplitPairEitherWay ==
    \A j \in DOMAIN log :
        (/\ log[j].r.kind = "RiscvPCRelLo12I"
         /\ \/ log[j].pass = "functions" /\ PairedWithHi20In("sections", log[j])
            \/ log[j].pass = "sections" /\ PairedWithHi20In("functions", log[j]))
            => Lo12Succeeded(j)

\* C9 amended: whenever a LO12_I of a function body is applied whose HI20 is
\* in a section, the HI20 was applied before and the lookup succeeds.
C9_Hi20InSectionLo12InFunction ==
    \A j \in DOMAIN log :
        (/\ log[j].r.kind = "RiscvPCRelLo12I"
         /\ log[j].pass = "functions" /\ PairedWithHi20In("sections", log[j]))
            => Lo12Succeeded(j)

\* C9 witness: a LO12_I of a function, paired with an HI20 of a section, was
\* applied and link_module returned.
C9_Witness ==
    /\ phase = "returned"
    /\ \E j \in DOMAIN log :
          /\ log[j].r.kind = "RiscvPCRelLo12I" /\ log[j].pass = "functions"
          /\ PairedWithHi20In("sections", log[j])
          /\ Read32(mem, log[j].address) # Zero64

\* the branch of the instruction word w at address a reaches a + delta, and
\* w has the opcode bits 31:26 of the word w0 it replaced
BranchReaches(w, w0, a, delta) ==
    /\ Add64(U64(a), Shl64(SignExtend(w, 26), 2)) = Add64(U64(a), delta)
    /\ Field(w, 31, 26) = Field(w0, 31, 26)

\* C10 as claimed: every Arm64Call record the linker accepts leaves a branch
\* to write_address + delta, opcode bits unchanged.
C10_AcceptedCallReachesTarget ==
    [][(Applying /\ CurCall.r.kind = "Arm64Call" /\ phase' # "panicked") =>
          BranchReaches(Read32(mem', CurCall.address), Read32(mem, CurCall.address),
                        CurCall.address, Val(CurCall))]_vars

\* C10, what the code does guarantee: an Arm64Call record whose delta is a
\* multiple of 4 with -2^27 <= delta < 2^27 (the reach of the 26-bit field)
\* is accepted and leaves a branch to write_address + delta, opcode bits
\* unchanged.
C10_AlignedWithinReach ==
    [][(/\ Applying /\ CurCall.r.kind = "Arm64Call"
        /\ Val(CurCall)[0] = 0 /\ Val(CurCall)[1] = 0
        /\ SLe(Neg64(Shl64(U64(1), 27)), Val(CurCall))
        /\ SLt(Val(CurCall), Shl64(U64(1), 27))) =>
          /\ phase' # "panicked"
          /\ BranchReaches(Read32(mem', CurCall.address), Read32(mem, CurCall.address),
                           CurCall.address, Val(CurCall))]_vars

\* C10 witness: an Arm64Call against LibCall(7) was applied on a word with
\* opcode bits set; its branch resolves to the trampoline entry 0xC070.
C10_Witness ==
    /\ phase = "returned" /\ Len(log) = 1
    /\ log[1].r.kind = "Arm64Call" /\ log[1].r.target = LibCall(7)
    /\ prefill # 0
    /\ Add64(U64(log[1].address),
             Shl64(SignExtend(Read32(mem, log[1].address), 26), 2)) = Hex(<<12,0,7,0>>)

=============================================================================
